---- MODULE Spec2Model ----
(***************************************************************************)
(* A model of ppm.c: write_ppm, load_ppm, load_header and readline, over   *)
(* files that are sequences of bytes.  A file position is a 0-based byte   *)
(* offset; byte k of a file f is f[k+1].                                   *)
(***************************************************************************)
EXTENDS Integers, Sequences, FiniteSets, TLC

\* ------------------------------------------------------------ constants
NL == 10
SP == 32
HASH == 35
MAX_LENGTH == 1024

\* ------------------------------------------------------------ bounds
MaxWidth == 5
MaxHeight == 3
PatLen == 2
MaxComments == 2

\* ------------------------------------------------------------ data types
PPM_RAW == "PPM_RAW"
PPM_ASCII == "PPM_ASCII"

\* The tags "P3" and "P6", and the literal "255" of the written header.
P3 == <<80, 51>>
P6 == <<80, 54>>
MaxvalText == <<50, 53, 53>>

\* img_t: width, height and the flat pixel array pix1d (pix2d is a view of
\* pix1d: pix2d[i] = pix1d + width*i).  null is the NULL pointer.
NullImg == [null |-> TRUE, width |-> 0, height |-> 0, pix1d |-> <<>>]

\* ppm_header_t.  calloc zeroes every field; type 0 is shown as PPM_RAW.
NullHeader == [null |-> TRUE, type |-> PPM_RAW, width |-> 0, height |-> 0,
               maxval |-> 0, data_offset |-> 0]
ZeroHeader == [NullHeader EXCEPT !.null = FALSE]

\* ------------------------------------------------------------ C library
\* isspace in the C locale.
IsSpace(c) == c \in {9, 10, 11, 12, 13, 32}

IsDigit(c) == c \in 48..57

\* A whitespace directive of scanf (" " or "\n"): the offset after every
\* whitespace byte from offset p on.
SkipSpace(s, p) ==
  CHOOSE q \in p..Len(s) :
    /\ (q = Len(s) \/ ~IsSpace(s[q + 1]))
    /\ \A r \in (p + 1)..q : IsSpace(s[r])

\* The conversion %<max>[^\n]: the offset after the bytes it reads from
\* offset p, at most max of them, none a newline.  It fails (reads nothing)
\* when the result is p.
ScanLine(s, p, max) ==
  LET top == IF Len(s) < p + max THEN Len(s) ELSE p + max
  IN  CHOOSE q \in p..top :
        /\ (q = top \/ s[q + 1] = NL)
        /\ \A r \in (p + 1)..q : s[r] # NL

\* The string a char array holds: its bytes before the first NUL.
CStr(s) ==
  LET e == CHOOSE q \in 0..Len(s) :
             /\ (q = Len(s) \/ s[q + 1] = 0)
             /\ \A r \in 1..q : s[r] # 0
  IN  SubSeq(s, 1, e)

\* The offset after the decimal digits from offset p on.
SkipDigits(s, p) ==
  CHOOSE q \in p..Len(s) :
    /\ (q = Len(s) \/ ~IsDigit(s[q + 1]))
    /\ \A r \in (p + 1)..q : IsDigit(s[r])

\* An unsigned int u is held as the integer of -2^31 .. 2^31-1 that equals u
\* modulo 2^32, so that -1 is 4294967295.  UGreater is > on unsigned ints.
UGreater(a, b) == IF (a < 0) = (b < 0) THEN a > b ELSE a < 0

\* The value of a run of decimal digits (the sources hold at most 4 digits).
RECURSIVE DecValue(_)
DecValue(ds) ==
  IF ds = <<>> THEN 0
  ELSE 10 * DecValue(SubSeq(ds, 1, Len(ds) - 1)) + (ds[Len(ds)] - 48)

\* The conversion %u at offset p: leading whitespace, an optional sign, then
\* at least one digit; a '-' negates the value as an unsigned int.
ScanU(s, p) ==
  LET a == SkipSpace(s, p)
      signed == a < Len(s) /\ s[a + 1] \in {43, 45}
      b == IF signed THEN a + 1 ELSE a
      e == SkipDigits(s, b)
      v == DecValue(SubSeq(s, b + 1, e))
  IN  IF e = b THEN [ok |-> FALSE, val |-> 0, pos |-> b]
      ELSE [ok |-> TRUE,
            val |-> IF signed /\ s[a + 1] = 45 THEN 0 - v ELSE v,
            pos |-> e]

\* The conversion %d of a non-negative int: its decimal digits.
RECURSIVE Dec(_)
Dec(n) == IF n < 10 THEN <<48 + n>> ELSE Dec(n \div 10) \o <<48 + (n % 10)>>

\* ------------------------------------------------------------ write_ppm
\* fprintf(f, "%s\n%d %d\n255\n", tag, img->width, img->height)
HeaderText(tag, w, h) ==
  tag \o <<NL>> \o Dec(w) \o <<SP>> \o Dec(h) \o <<NL>> \o MaxvalText \o <<NL>>

\* The binary pixel block from pixel k on: three fwrite of one byte each.
RECURSIVE RawBlock(_, _)
RawBlock(pix, k) ==
  IF k > Len(pix) THEN <<>>
  ELSE <<pix[k][1], pix[k][2], pix[k][3]>> \o RawBlock(pix, k + 1)

\* EndsLine, were the count incremented after the test (count++ % 5).
EndsLine_PostIncrement(count) == (count - 1) % 5 = 0

\* Whether the text writer ends the line after the count-th pixel.
EndsLine(count) == count % 5 = 0

\* The text pixel block from pixel k on: "%d %d %d " and a newline when the
\* running count, which is k after pixel k, is a multiple of 5.
RECURSIVE TextBlock(_, _)
TextBlock(pix, k) ==
  IF k > Len(pix) THEN <<>>
  ELSE Dec(pix[k][1]) \o <<SP>> \o Dec(pix[k][2]) \o <<SP>> \o Dec(pix[k][3]) \o <<SP>>
       \o (IF EndsLine(k) THEN <<NL>> ELSE <<>>)
       \o TextBlock(pix, k + 1)

\* The bytes write_ppm puts in the file.
WritePPM(im, t) ==
  IF t = PPM_RAW
  THEN HeaderText(P6, im.width, im.height) \o RawBlock(im.pix1d, 1)
  ELSE HeaderText(P3, im.width, im.height) \o TextBlock(im.pix1d, 1)

\* ------------------------------------------------------------ inputs
\* Pixels with one-, two- and three-digit components, some of them
\* whitespace bytes (10, 32).
PixelSet == {<<255, 0, 128>>, <<10, 20, 30>>, <<7, 32, 200>>}

\* The in-memory images handed to write_ppm: every size up to
\* MaxWidth x MaxHeight, the pixels repeating a pattern of PatLen pixels.
Images ==
  { [null |-> FALSE, width |-> w, height |-> h,
     pix1d |-> [k \in 1..(w * h) |-> pat[((k - 1) % PatLen) + 1]]] :
       w \in 1..MaxWidth, h \in 1..MaxHeight, pat \in [1..PatLen -> PixelSet] }

\* What may stand before the tag line of a source on disk.
Prefixes == {<<>>, <<SP>>, <<NL>>}

\* "P6\n", "P3\n", and "P5\n"
GoodTags == {P6 \o <<NL>>, P3 \o <<NL>>}
TagLines == GoodTags \cup {<<80, 53, NL>>}

\* "2 1\n", "1 1\n", and "2 1 255\n", "2\n", "a 1\n"
GoodDims == {<<50, SP, 49, NL>>, <<49, SP, 49, NL>>}
DimLines == GoodDims \cup {<<50, SP, 49, SP, 50, 53, 53, NL>>, <<50, NL>>, <<97, SP, 49, NL>>}

\* "255\n", "1\n", and "256\n", "x\n"
GoodMax == {MaxvalText \o <<NL>>, <<49, NL>>}
MaxLines == GoodMax \cup {<<50, 53, 54, NL>>, <<120, NL>>}

\* What follows the header: nothing; 6 raw bytes; 3 raw bytes, the first a
\* newline; 2 raw bytes; the texts "10 20 30 40 50 60 ", "1 0 1 0 0 1 ",
\* "1 0 2 0 0 1 ", "300 0 0 0 0 0 ", "-1 0 0 ", "1 x"; the comment "#c\n".
Datas == {<<>>,
          <<255, 0, 128, 7, 32, 200>>,
          <<NL, 20, 30>>,
          <<200, 100>>,
          <<49, 48, SP, 50, 48, SP, 51, 48, SP, 52, 48, SP, 53, 48, SP, 54, 48, SP>>,
          <<49, SP, 48, SP, 49, SP, 48, SP, 48, SP, 49, SP>>,
          <<49, SP, 48, SP, 50, SP, 48, SP, 48, SP, 49, SP>>,
          <<51, 48, 48, SP, 48, SP, 48, SP, 48, SP, 48, SP, 48, SP>>,
          <<45, 49, SP, 48, SP, 48, SP>>,
          <<49, SP, 120>>,
          <<HASH, 99, NL>>}

\* The headers of three lines in which at most one part is not a good one.
Headers ==
  { h \in Prefixes \X TagLines \X DimLines \X MaxLines :
      (IF h[1] = <<>> THEN 0 ELSE 1) + (IF h[2] \in GoodTags THEN 0 ELSE 1)
      + (IF h[3] \in GoodDims THEN 0 ELSE 1) + (IF h[4] \in GoodMax THEN 0 ELSE 1) <= 1 }

\* The sources that end after the tag line or after the dimensions line,
\* or with a comment line there.
Truncated ==
  { t \o d \o x : t \in GoodTags, d \in GoodDims \cup {<<>>}, x \in {<<>>, <<HASH, 99, NL>>} }

\* The sources on disk handed to load_ppm.
Sources ==
  { h[1] \o h[2] \o h[3] \o h[4] \o x : h \in Headers, x \in Datas } \cup Truncated

\* A comment line of n characters: '#' and n-1 times 'x'.
CommentOf(n) == [k \in 1..n |-> IF k = 1 THEN HASH ELSE 120]

RECURSIVE Repeat(_, _)
Repeat(s, n) == IF n = 0 THEN <<>> ELSE s \o Repeat(s, n - 1)

\* The comment lines inserted in a source: up to MaxComments times "#" or
\* "# note"; the longest line the line buffer holds; a line one character
\* longer than that.
CommentBlocks ==
  { [text |-> Repeat(c \o <<NL>>, n), longest |-> Len(c)] :
      c \in {<<HASH>>, <<HASH, SP, 110, 111, 116, 101>>}, n \in 1..MaxComments }
  \cup { [text |-> CommentOf(n) \o <<NL>>, longest |-> n] : n \in {MAX_LENGTH, MAX_LENGTH + 1} }

\* The content of the uninitialised line buffer, when it is read: "", "#", "P6".
GarbageLines == {<<>>, <<HASH>>, P6}

\* The byte that fills the memory malloc returns: 0 in fresh pages, 0xbe
\* under the address sanitizer the Makefile builds with.
GarbageBytes == {0, 190}

\* The line buffer before anything was stored in it.
Indeterminate == <<-1>>

\* ------------------------------------------------------------ state
VARIABLES
  file,       \* the bytes of the file named filename
  img,        \* the image handed to write_ppm (NullImg: the file is a source on disk)
  type,       \* the PPM_TYPE handed to write_ppm
  wres,       \* what write_ppm returned: "none" (not called), "true", "false"
  pc,         \* where the program is
  header,     \* load_header's header (kept readable after free)
  line,       \* load_header's line buffer, as a C string
  fpos,       \* the position of the open FILE
  lineStart,  \* for each of the three readline calls, where the line it returned starts, or -1
  loaded,     \* load_ppm's img
  fill,       \* the byte that filled img's memory, once a pixel keeps it (-1 before)
  i,          \* load_ppm's pixel index
  result,     \* what load_ppm returned
  err,        \* the exit load_ppm took: "none" is "return img"
  heap,       \* live allocations: headers, images
  nopen,      \* open FILE handles
  call,       \* 1: first load_ppm call; 2: the call on the source with comments inserted
  ref,        \* the first call's file, header, result and exit
  ins         \* the insertion: its offset, its length and the longest inserted line

vars == <<file, img, type, wres, pc, header, line, fpos, lineStart, loaded, fill, i,
          result, err, heap, nopen, call, ref, ins>>

loadVars == <<header, line, fpos, lineStart, loaded, fill, i, result, err, heap, nopen>>

NoLines == [k \in 1..3 |-> -1]
NoRef == [file |-> <<>>, header |-> NullHeader, result |-> NullImg, err |-> "pending"]
NoIns == [at |-> 0, len |-> 0, longest |-> 0]

Init ==
  /\ \/ /\ img \in Images
        /\ type \in {PPM_RAW, PPM_ASCII}
        /\ file = <<>>
        /\ pc = "write"
     \/ /\ img = NullImg
        /\ type = PPM_RAW
        /\ file \in Sources
        /\ pc = "load"
  /\ wres = "none"
  /\ header = NullHeader
  /\ line = Indeterminate
  /\ fpos = 0
  /\ lineStart = NoLines
  /\ loaded = NullImg
  /\ fill = -1
  /\ i = 0
  /\ result = NullImg
  /\ err = "pending"
  /\ heap = [header |-> 0, img |-> 0]
  /\ nopen = 0
  /\ call = 1
  /\ ref = NoRef
  /\ ins = NoIns

\* ------------------------------------------------------------ actions
\* write_ppm(filename, img, type): fopen may fail; otherwise the file holds
\* the header and the pixel block, and the program goes on to load it.
write_ppm ==
  /\ pc = "write"
  /\ \E opened \in BOOLEAN :
       IF opened
       THEN /\ file' = WritePPM(img, type)
            /\ wres' = "true"
            /\ pc' = "load"
       ELSE /\ file' = file
            /\ wres' = "false"
            /\ pc' = "done"
  /\ UNCHANGED <<img, type, call, ref, ins>>
  /\ UNCHANGED loadVars

\* ------------------------------------------------------------ load_header
\* load_header's exit through "error": free(header), fclose(f), return NULL;
\* load_ppm then leaves through error1: free(NULL), return NULL.
HeaderError(e) ==
  /\ header' = NullHeader
  /\ heap' = [heap EXCEPT !.header = 0]
  /\ nopen' = 0
  /\ result' = NullImg
  /\ err' = e
  /\ pc' = "done"

\* load_ppm calls load_header, which opens the file and callocs the header.
\* When fopen fails load_header returns NULL and load_ppm leaves through error1.
load_header_open ==
  /\ pc = "load"
  /\ \E opened \in BOOLEAN :
       IF opened
       THEN /\ header' = ZeroHeader
            /\ heap' = [heap EXCEPT !.header = 1]
            /\ nopen' = 1
            /\ fpos' = 0
            /\ pc' = "rl_type"
            /\ UNCHANGED <<result, err>>
       ELSE /\ HeaderError("header_open")
            /\ fpos' = fpos
  /\ UNCHANGED <<fill, file, img, type, wres, line, lineStart, loaded, i, call, ref, ins>>

\* The readline call a position belongs to, and the statement after it.
ReadlineCall(p) == CASE p = "rl_type" -> 1 [] p = "rl_dims" -> 2 [] p = "rl_maxval" -> 3
AfterReadline(p) ==
  CASE p = "rl_type" -> "type" [] p = "rl_dims" -> "dims" [] p = "rl_maxval" -> "maxval"

\* IsComment, were a line of "#" alone not taken for a comment.
IsComment_NotBare(l) == Len(l) > 1 /\ l[1] = HASH

\* Whether readline takes the line for a comment and reads another one.
IsComment(l) == l # <<>> /\ l[1] = HASH

\* One turn of readline's loop: fscanf(f, "%1024[^\n]", line), which leaves
\* line as it was when it reads nothing (end of file, or a newline next);
\* fscanf(f, "\n"), which skips all whitespace; then the test of line[0].
\* A line buffer never written yet holds whatever the stack held.
\* The static counter line_nb is incremented and never read: it is left out
\* of the state.  At the end of the file, with a comment in line, a turn
\* changes nothing: the loop then shows as a step that leaves every
\* variable as it is.
readline ==
  /\ pc \in {"rl_type", "rl_dims", "rl_maxval"}
  /\ LET e == ScanLine(file, fpos, MAX_LENGTH)
         read == e > fpos
     IN  /\ fpos' = SkipSpace(file, e)
         /\ lineStart' = IF read THEN [lineStart EXCEPT ![ReadlineCall(pc)] = fpos]
                         ELSE lineStart
         /\ \E l \in (IF read THEN {CStr(SubSeq(file, fpos + 1, e))}
                      ELSE IF line = Indeterminate THEN GarbageLines ELSE {line}) :
              /\ line' = l
              /\ pc' = IF IsComment(l) THEN pc ELSE AfterReadline(pc)
  /\ UNCHANGED <<fill, file, img, type, wres, header, loaded, i, result, err, heap, nopen,
                 call, ref, ins>>

\* strcmp("P3", line), strcmp("P6", line)
load_header_type ==
  /\ pc = "type"
  /\ IF line = P3 \/ line = P6
     THEN /\ header' = [header EXCEPT !.type = IF line = P3 THEN PPM_ASCII ELSE PPM_RAW]
          /\ pc' = "rl_dims"
          /\ UNCHANGED <<heap, nopen, result, err>>
     ELSE HeaderError("format")
  /\ UNCHANGED <<fill, file, img, type, wres, line, fpos, lineStart, loaded, i, call, ref, ins>>

\* The number of conversions sscanf(line, "%u %u", ...) makes.
DimsMatches(l) ==
  LET a == ScanU(l, 0)
  IN  IF ~a.ok THEN 0 ELSE IF ~ScanU(l, a.pos).ok THEN 1 ELSE 2

\* sscanf(line, "%u %u", &header->width, &header->height); matches != 2 is an error
load_header_dims ==
  /\ pc = "dims"
  /\ IF DimsMatches(line) = 2
     THEN /\ header' = [header EXCEPT !.width = ScanU(line, 0).val,
                                      !.height = ScanU(line, ScanU(line, 0).pos).val]
          /\ pc' = "rl_maxval"
          /\ UNCHANGED <<heap, nopen, result, err>>
     ELSE HeaderError("dims")
  /\ UNCHANGED <<fill, file, img, type, wres, line, fpos, lineStart, loaded, i, call, ref, ins>>

\* sscanf(line, "%u ", &header->maxval); the test maxval > 255; then
\* data_offset = ftell(f), fclose(f), return header.
load_header_maxval ==
  /\ pc = "maxval"
  /\ LET m == ScanU(line, 0)
     IN  IF ~m.ok THEN HeaderError("maxval")
         ELSE IF UGreater(m.val, 255) THEN HeaderError("range")
         ELSE /\ header' = [header EXCEPT !.maxval = m.val, !.data_offset = fpos]
              /\ nopen' = 0
              /\ pc' = "alloc"
              /\ UNCHANGED <<heap, result, err>>
  /\ UNCHANGED <<fill, file, img, type, wres, line, fpos, lineStart, loaded, i, call, ref, ins>>

\* ------------------------------------------------------------ load_ppm
\* load_ppm's exit through error1: free(header), return NULL.
Error1(e) ==
  /\ heap' = [heap EXCEPT !.header = 0]
  /\ result' = NullImg
  /\ err' = e
  /\ pc' = "done"

\* load_ppm's exit through error2: fclose(f), then error1.
Error2(e) ==
  /\ nopen' = 0
  /\ Error1(e)

\* The image alloc_img returns when its three malloc succeed: the pixels
\* are not initialised (-1: no value stored yet).
AllocImg(w, h) ==
  [null |-> FALSE, width |-> w, height |-> h,
   pix1d |-> [k \in 1..(w * h) |-> <<-1, -1, -1>>]]

\* img = alloc_img(header->width, header->height); NULL goes to error1.
load_alloc ==
  /\ pc = "alloc"
  /\ \E allocated \in BOOLEAN :
       IF allocated
       THEN /\ loaded' = AllocImg(header.width, header.height)
            /\ heap' = [heap EXCEPT !.img = @ + 1]
            /\ pc' = "open"
            /\ UNCHANGED <<result, err>>
       ELSE /\ Error1("alloc")
            /\ loaded' = loaded
  /\ UNCHANGED <<fill, file, img, type, wres, header, line, fpos, lineStart, i, nopen,
                 call, ref, ins>>

\* f = fopen(filename, "r"); NULL goes to error1; fseek(f, data_offset, SEEK_SET).
load_open ==
  /\ pc = "open"
  /\ \E opened \in BOOLEAN :
       IF opened
       THEN /\ nopen' = 1
            /\ fpos' = header.data_offset
            /\ i' = 0
            /\ pc' = IF header.type = PPM_ASCII THEN "ascii" ELSE "raw"
            /\ UNCHANGED <<heap, result, err>>
       ELSE /\ Error1("open")
            /\ UNCHANGED <<nopen, fpos, i>>
  /\ UNCHANGED <<fill, file, img, type, wres, header, line, lineStart, loaded, call, ref, ins>>

\* OutOfRange, were the blue component not tested.
OutOfRange_NoBlue(r, g, b, maxval) == UGreater(r, maxval) \/ UGreater(g, maxval)

\* r > header->maxval || g > header->maxval || b > header->maxval
OutOfRange(r, g, b, maxval) ==
  UGreater(r, maxval) \/ UGreater(g, maxval) \/ UGreater(b, maxval)

\* AsciiPixel, were the components stored in the order b, g, r.
AsciiPixel_Reversed(r, g, b) == <<b % 256, g % 256, r % 256>>

\* pixel_t p = { r, g, b }: each unsigned int is converted to a byte.
AsciiPixel(r, g, b) == <<r % 256, g % 256, b % 256>>

\* One turn of the text loop: fscanf(f, "%u %u %u", &r, &g, &b), the tests
\* of matches and of the range, the store in pix1d[i].
load_ascii ==
  /\ pc = "ascii"
  /\ i < header.width * header.height
  /\ LET r == ScanU(file, fpos)
         g == ScanU(file, r.pos)
         b == ScanU(file, g.pos)
     IN  IF ~(r.ok /\ g.ok /\ b.ok)
         THEN /\ Error2("pixel_format")
              /\ UNCHANGED <<loaded, fpos, i>>
         ELSE IF OutOfRange(r.val, g.val, b.val, header.maxval)
         THEN /\ Error2("pixel_range")
              /\ UNCHANGED <<loaded, fpos, i>>
         ELSE /\ loaded' = [loaded EXCEPT !.pix1d[i + 1] = AsciiPixel(r.val, g.val, b.val)]
              /\ fpos' = b.pos
              /\ i' = i + 1
              /\ UNCHANGED <<heap, nopen, result, err, pc>>
  /\ UNCHANGED <<fill, file, img, type, wres, header, line, lineStart, call, ref, ins>>

\* The byte the c-th fread of a pixel stores, at position p: the next byte
\* of the file.
RawByte(f, p, c) == f[p + c]

\* One turn of the binary loop: three fread of one byte, none checked.  At
\* the end of the file fread stores nothing and the component keeps what
\* malloc left there.
load_raw ==
  /\ pc = "raw"
  /\ i < header.width * header.height
  /\ LET avail == Len(file) - fpos
     IN  /\ \E junk \in (IF avail >= 3 \/ fill # -1 THEN {fill} ELSE GarbageBytes) :
              /\ fill' = junk
              /\ loaded' = [loaded EXCEPT !.pix1d[i + 1] =
                              [c \in 1..3 |-> IF c <= avail THEN RawByte(file, fpos, c)
                                              ELSE junk]]
         /\ fpos' = IF avail >= 3 THEN fpos + 3 ELSE Len(file)
  /\ i' = i + 1
  /\ UNCHANGED <<file, img, type, wres, header, line, lineStart, result, err, heap,
                 nopen, pc, call, ref, ins>>

\* After the loop: free(header), fclose(f), return img.
load_return ==
  /\ pc \in {"ascii", "raw"}
  /\ i = header.width * header.height
  /\ heap' = [heap EXCEPT !.header = 0]
  /\ nopen' = 0
  /\ result' = loaded
  /\ err' = "none"
  /\ pc' = "done"
  /\ UNCHANGED <<fill, file, img, type, wres, header, line, fpos, lineStart, loaded, i,
                 call, ref, ins>>

\* ------------------------------------------------------------ comments
\* The offset where the line holding offset p starts.
LineStartOf(f, p) ==
  CHOOSE q \in 0..p :
    /\ (q = 0 \/ f[q] = NL)
    /\ \A r \in (q + 1)..p : f[r] # NL

\* What a caller can tell of a returned image: a component that no fread
\* stored (the file ended) holds no value to compare (-1).
Observed(res, h, f) ==
  IF res.null THEN res
  ELSE [res EXCEPT !.pix1d =
          [k \in 1..Len(res.pix1d) |->
             [c \in 1..3 |->
                IF h.type = PPM_ASCII \/ h.data_offset + 3 * (k - 1) + c <= Len(f)
                THEN res.pix1d[k][c] ELSE -1]]]

\* An exit of load_ppm that the file does not decide: fopen or malloc failed.
EnvFailure(e) == e \in {"header_open", "alloc", "open"}

\* The caller of load_ppm, once a source on disk that starts with no
\* whitespace is loaded (and neither fopen nor malloc failed): it frees the
\* image it got, inserts comment lines before one of the header lines that
\* readline returned, and loads the file again.
insert_comments ==
  /\ pc = "done"
  /\ call = 1
  /\ img = NullImg
  /\ ~EnvFailure(err)
  /\ file # <<>>
  /\ ~IsSpace(file[1])
  /\ \E k \in 1..3, c \in CommentBlocks :
       /\ lineStart[k] >= 0
       /\ LET at == LineStartOf(file, lineStart[k])
          IN  /\ file' = SubSeq(file, 1, at) \o c.text \o SubSeq(file, at + 1, Len(file))
              /\ ins' = [at |-> at, len |-> Len(c.text), longest |-> c.longest]
  /\ ref' = [file |-> file, header |-> header,
             result |-> Observed(result, header, file), err |-> err]
  /\ call' = 2
  /\ heap' = [heap EXCEPT !.img = IF result.null THEN @ ELSE @ - 1]
  /\ header' = NullHeader
  /\ line' = Indeterminate
  /\ fpos' = 0
  /\ lineStart' = NoLines
  /\ loaded' = NullImg
  /\ fill' = -1
  /\ i' = 0
  /\ result' = NullImg
  /\ err' = "pending"
  /\ pc' = "load"
  /\ UNCHANGED <<img, type, wres, nopen>>

\* ------------------------------------------------------------ program
Next ==
  \/ write_ppm
  \/ load_header_open
  \/ readline
  \/ load_header_type
  \/ load_header_dims
  \/ load_header_maxval
  \/ load_alloc
  \/ load_open
  \/ load_ascii
  \/ load_raw
  \/ load_return
  \/ insert_comments

Spec == Init /\ [][Next]_vars

\* The program keeps running while it can take a step: it is one thread.
FairSpec == Spec /\ WF_vars(Next)

\* ------------------------------------------------------------ claims
Done == pc = "done"

\* write_ppm then load_ppm ran to the end, and neither fopen nor malloc failed.
RoundTripDone(t) ==
  /\ Done
  /\ ~img.null
  /\ wres = "true"
  /\ type = t
  /\ ~EnvFailure(err)

\* C1: an image written in the binary variant and loaded again comes back
\* with the same width, height and pixel components.
C1_BinaryRoundTrip == RoundTripDone(PPM_RAW) => result = img

\* C2: an image written in the text variant and loaded again comes back with
\* the same width, height and pixel components.
C2_TextRoundTrip == RoundTripDone(PPM_ASCII) => result = img

\* A text round trip of an image whose rows do not end where the lines of 5
\* pixels end, and which has more than 5 pixels.
C2_Witness ==
  /\ RoundTripDone(PPM_ASCII)
  /\ img.width = 3
  /\ img.height = 3
  /\ img.pix1d[1] # img.pix1d[2]
  /\ result = img

\* The offset after the j-th occurrence of byte b in s.
AfterNth(s, b, j) ==
  CHOOSE q \in 1..Len(s) : s[q] = b /\ Cardinality({r \in 1..q : s[r] = b}) = j

\* The pixel block of a written file: what follows the third newline.
PixelBlock(f) == SubSeq(f, AfterNth(f, NL, 3) + 1, Len(f))

\* Whether a newline follows the k-th pixel of a text block: the byte after
\* the pixel's third space (the 3k-th space of the block).
NewlineAfterPixel(block, k) ==
  LET e == AfterNth(block, SP, 3 * k)
  IN  e < Len(block) /\ block[e + 1] = NL

NewlineCount(block) == Cardinality({q \in 1..Len(block) : block[q] = NL})

\* The file is the one write_ppm just wrote in the text variant.
TextWritten == pc = "load" /\ wres = "true" /\ type = PPM_ASCII /\ call = 1

\* C5: in the text pixel block of an image of n pixels a newline follows
\* pixel k exactly when k is a multiple of 5, so there are n \div 5 newlines.
C5_NewlineCadence ==
  TextWritten =>
    LET block == PixelBlock(file)
        n == img.width * img.height
    IN  /\ NewlineCount(block) = n \div 5
        /\ \A k \in 1..n : NewlineAfterPixel(block, k) <=> (k % 5 = 0)

\* A text block of 12 pixels: 2 newlines, after pixels 5 and 10, none after 12.
C5_Witness ==
  /\ TextWritten
  /\ img.width * img.height = 12
  /\ NewlineCount(PixelBlock(file)) = 2
  /\ NewlineAfterPixel(PixelBlock(file), 5)
  /\ NewlineAfterPixel(PixelBlock(file), 10)
  /\ ~NewlineAfterPixel(PixelBlock(file), 12)

\* load_ppm ran to the end on a source whose header load_header returned,
\* and neither fopen nor malloc failed.
Decoded(t) ==
  /\ Done
  /\ ~EnvFailure(err)
  /\ ~header.null
  /\ header.type = t

\* The offset after the line that the third readline call returned.
HeaderEnd ==
  LET e == ScanLine(file, lineStart[3], MAX_LENGTH)
  IN  IF e < Len(file) THEN e + 1 ELSE e

\* C3: a binary source with fewer than width*height*3 bytes after its
\* header is not loaded: load_ppm returns NULL.
C3_Truncation ==
  (/\ Decoded(PPM_RAW)
   /\ lineStart[3] >= 0
   /\ Len(file) - HeaderEnd < 3 * header.width * header.height)
  => result.null

\* C6: when load_ppm returns NULL, nothing it allocated is still allocated
\* and no file it opened is still open.
C6_NoLeak ==
  (Done /\ call = 1 /\ wres # "false" /\ result.null)
  => (heap.header = 0 /\ heap.img = 0 /\ nopen = 0)

\* C7: load_ppm terminates on every source: it returns an image or NULL.
C7_Termination == <>Done

\* C8: a source with no maximum-value line is rejected: load_header returns
\* a header (load_ppm goes on to alloc_img) only when its third readline
\* call read a line.
C8_MissingMaxval == pc = "alloc" => lineStart[3] >= 0

\* Whether a line is two runs of digits separated by whitespace, and
\* nothing else but whitespace around them.
TwoIntegers(l) ==
  LET a == SkipSpace(l, 0)
      b == SkipDigits(l, a)
      c == SkipSpace(l, b)
      d == SkipDigits(l, c)
  IN  b > a /\ c > b /\ d > c /\ SkipSpace(l, d) = Len(l)

\* C9: load_header goes on after the dimensions line only when the line is
\* exactly two whitespace-separated non-negative integers.
C9_DimensionsLine ==
  [][(pc = "dims" /\ pc' = "rl_maxval") => TwoIntegers(line)]_vars

\* The values of the first n conversions %u from offset p on, up to the
\* first that fails.
RECURSIVE TokenSeq(_, _, _)
TokenSeq(s, p, n) ==
  IF n = 0 THEN <<>>
  ELSE LET t == ScanU(s, p)
       IN  IF ~t.ok THEN <<>> ELSE <<t.val>> \o TokenSeq(s, t.pos, n - 1)

\* C10: a text source one of whose width*height*3 components is above the
\* declared maximum is not loaded, so every component of an image loaded
\* from a text source is at most the maximum; a binary source is loaded
\* with the bytes it holds, whatever the maximum.
C10_RangeCheck ==
  /\ Decoded(PPM_ASCII) =>
       LET n == 3 * header.width * header.height
           toks == TokenSeq(file, header.data_offset, n)
       IN  /\ (Len(toks) = n /\ \E j \in 1..n : UGreater(toks[j], header.maxval))
                => result.null
           /\ ~result.null =>
                \A k \in 1..Len(result.pix1d) : \A c \in 1..3 :
                  result.pix1d[k][c] <= header.maxval
  /\ Decoded(PPM_RAW) =>
       /\ ~result.null
       /\ \A k \in 1..Len(result.pix1d) : \A c \in 1..3 :
            header.data_offset + 3 * (k - 1) + c <= Len(file)
              => result.pix1d[k][c] = file[header.data_offset + 3 * (k - 1) + c]

\* A text source with a declared maximum below 255 and a component above
\* it, which load_ppm refused.
C10_Witness ==
  /\ Decoded(PPM_ASCII)
  /\ header.maxval = 1
  /\ err = "pixel_range"
  /\ result.null

\* The second call ended, on the source with the comment lines inserted.
Compared == Done /\ call = 2 /\ ~EnvFailure(err)

\* The second call returned what the first returned: the same header but
\* for the offset of the pixel data, moved by the length of the inserted
\* lines, and the same image.
SameResult ==
  /\ header = IF ref.header.null THEN ref.header
              ELSE [ref.header EXCEPT !.data_offset = @ + ins.len]
  /\ Observed(result, header, file) = ref.result

\* The first call loaded a source that has its three header lines and all
\* its pixel data.
LoadedWhole ==
  /\ ~ref.result.null
  /\ NewlineCount(SubSeq(ref.file, 1, ref.header.data_offset)) >= 3
  /\ \A k \in 1..Len(ref.result.pix1d) : \A c \in 1..3 : ref.result.pix1d[k][c] # -1

====
